---------------------------- MODULE Spec2Model ----------------------------
(***************************************************************************)
(* Sugarscape with traders (src/agents.py, src/sugarscape.py,              *)
(* src/utils.py).                                                          *)
(*                                                                         *)
(* Numbers.  The program computes welfare, MRS and price in floating       *)
(* point.  The model keeps them exact:                                     *)
(*   - an MRS is the rational [n, d] = (spice*metabolism_sugar) /          *)
(*     (metabolism_spice*sugar);                                           *)
(*   - a price is the record [n, d] standing for sqrt(n/d);                *)
(*   - a welfare sugar^(ms/m) * spice^(mp/m) is kept as its m-th power     *)
(*     sugar^ms * spice^mp, which orders the values of one agent the same  *)
(*     way.                                                                *)
(* A Python exception is the value of exc; it ends the run it occurs in.   *)
(***************************************************************************)
EXTENDS Integers, Sequences, FiniteSets, TLC

\* ------------------------------------------------------------------ bounds
MaxHold      == 8    \* largest sugar / spice holding drawn for a trade pair
MaxMetab     == 2    \* largest metabolism rate drawn for a trade pair
MaxPriceTerm == 16   \* prices sqrt(n/d) are drawn with n, d in 1..MaxPriceTerm
Width        == 1    \* grid width
Height       == 2    \* grid height
MaxCapacity  == 1    \* largest entry of the sugar map
MaxPop       == 2    \* largest initial_population
PatchCap     == 5    \* largest capacity of the patch under regrowth
MaxRegrow    == 6    \* regrow phases applied to that patch
MaxUnits     == 2    \* largest quantity handed to exchange_resources
MaxExchanges == 2    \* exchange_resources calls made on one pair

\* the configuration the model is constructed with (sugarscape.py 12-15)
endowment_min  == 1
endowment_max  == 2
metabolism_min == 1
metabolism_max == 2
step_count     == 2    \* run_model(step_count)
vision_min     == 1
vision_max     == 1

\* math.isclose(a, b): rel_tol = 1e-09, abs_tol = 0.0
RelTolInv == 1000000000

Abs(x) == IF x < 0 THEN -x ELSE x
Max2(x, y) == IF x >= y THEN x ELSE y
Min2(x, y) == IF x <= y THEN x ELSE y

\* ------------------------------------------------------- rationals, prices
Rat(n, d) == [n |-> n, d |-> d]
RatLess(a, b)  == a.n * b.d < b.n * a.d
RatEq(a, b)    == a.n * b.d = b.n * a.d

\* math.isclose on two positive rationals:
\*   abs(a - b) <= rel_tol * max(abs(a), abs(b))
isclose(a, b) ==
    Abs(a.n * b.d - b.n * a.d) <= Max2(a.n * b.d, b.n * a.d) \div RelTolInv

\* int(sqrt(n/d)) for n, d > 0: int() truncates, the value is positive
IntSqrt(n, d) ==
    CHOOSE k \in 0..n : k * k * d <= n /\ (k + 1) * (k + 1) * d > n

\* the names class Trader defines (agents.py 13-304); looking up any other
\* name on a Trader raises AttributeError
TraderAttrs ==
    { "unique_id", "pos", "moore", "sugar", "spice", "metabolism_sugar",
      "metabolism_spice", "vision", "bought_or_sold", "prices",
      "trade_partners", "model", "random",
      "get_resource", "get_trader", "is_occupied", "calc_welfare",
      "calc_mrs", "calc_sell_amount", "exchange_resources", "sell_spice",
      "trade", "move", "eat", "die", "trade_with_neighbors" }

\* ------------------------------------------------------ Trader: pure parts
\* Trader.calc_welfare, as the m-th power of the Cobb-Douglas value
calc_welfare(self, sugar, spice) ==
    (sugar ^ self.metabolism_sugar) * (spice ^ self.metabolism_spice)

\* Trader.calc_mrs: (spice / metabolism_spice) / (sugar / metabolism_sugar)
calc_mrs(self, sugar, spice) ==
    Rat(spice * self.metabolism_sugar, self.metabolism_spice * sugar)

\* a plausible slip: the numeraire is not switched below price 1
calc_sell_amount_noswitch(price) ==
    <<1, IntSqrt(price.n, price.d)>>

\* Trader.calc_sell_amount: <<sugar, spice>>
calc_sell_amount(price) ==
    IF price.n >= price.d
    THEN <<1, IntSqrt(price.n, price.d)>>
    ELSE <<IntSqrt(price.d, price.n), 1>>


\* a sign slip in the third assignment: other gains the sugar as well
exchange_resources_slip(tr, self, other, sugar, spice) ==
    [tr EXCEPT ![self].sugar = @ + sugar, ![self].spice = @ - spice,
               ![other].sugar = @ + sugar, ![other].spice = @ + spice]

\* Trader.exchange_resources: self buys sugar from other and pays in spice
exchange_resources(tr, self, other, sugar, spice) ==
    [tr EXCEPT ![self].sugar = @ + sugar, ![self].spice = @ - spice,
               ![other].sugar = @ - sugar, ![other].spice = @ + spice]

\* a method of Trader called by name on an instance; only the names the
\* class defines have a body
CallTrader(name, self, sugar, spice) ==
    CASE name = "calc_welfare" -> calc_welfare(self, sugar, spice)
      [] name = "calc_mrs"     -> calc_mrs(self, sugar, spice)

\* the names sell_spice looks up on `other` (agents.py 145 and 149)
OtherWelfareMethod == "calculate_welfare"
OtherMrsMethod     == "calculate"

SellRet(tr, sold, e) == [trader |-> tr, sold |-> sold, exc |-> e]

\* Trader.sell_spice(self, other, price, welfare_self, welfare_other)
sell_spice(tr, self, other, price, welfare_self, welfare_other) ==
    LET amt             == calc_sell_amount(price)
        sugar_exchanged == amt[1]
        spice_exchanged == amt[2]
        self_sugar      == tr[self].sugar + sugar_exchanged
        self_spice      == tr[self].spice - spice_exchanged
        other_sugar     == tr[other].sugar - sugar_exchanged
        other_spice     == tr[other].spice + spice_exchanged
        self_better     == welfare_self
                             < calc_welfare(tr[self], self_sugar, self_spice)
    IN  IF self_sugar <= 0 \/ self_spice <= 0
           \/ other_sugar <= 0 \/ other_spice <= 0
        THEN SellRet(tr, FALSE, "none")
        \* `and` evaluates its right operand only when the left one is true
        ELSE IF self_better /\ OtherWelfareMethod \notin TraderAttrs
        THEN SellRet(tr, FALSE, "AttributeError")
        ELSE IF OtherMrsMethod \notin TraderAttrs
        THEN SellRet(tr, FALSE, "AttributeError")
        ELSE LET both_better_off ==
                     self_better
                     /\ welfare_other < CallTrader(OtherWelfareMethod,
                                           tr[other], other_sugar, other_spice)
                 mrs_not_crossing ==
                     RatLess(CallTrader(OtherMrsMethod, tr[other],
                                        other_sugar, other_spice),
                             calc_mrs(tr[self], self_sugar, self_spice))
             IN  IF ~(both_better_off /\ mrs_not_crossing)
                 THEN SellRet(tr, FALSE, "none")
                 ELSE SellRet(exchange_resources(tr, self, other,
                                  sugar_exchanged, spice_exchanged),
                              TRUE, "none")

TradeRet(tr, status, e) == [trader |-> tr, status |-> status, exc |-> e]

\* Trader.trade, lines 169-183: what one activation computes before it
\* stops or calls sell_spice
trade_locals(tr, self, other) ==
    LET mrs_self  == calc_mrs(tr[self], tr[self].sugar, tr[self].spice)
        mrs_other == calc_mrs(tr[self], tr[other].sugar, tr[other].spice)
    IN  [ mrs_self      |-> mrs_self,
          mrs_other     |-> mrs_other,
          welfare_self  |-> calc_welfare(tr[self], tr[self].sugar,
                                         tr[self].spice),
          welfare_other |-> calc_welfare(tr[other], tr[other].sugar,
                                         tr[other].spice),
          \* math.sqrt(mrs_self * mrs_other)
          price |-> Rat(mrs_self.n * mrs_other.n, mrs_self.d * mrs_other.d),
          buyer_or_seller |->
              IF RatLess(mrs_other, mrs_self) THEN "seller" ELSE "buyer",
          \* the holdings the activation started from
          at |-> tr ]

\* Trader.trade, lines 178-202, l being the local variables of the
\* activation
trade_from(tr, self, other, l) ==
    LET r == IF l.buyer_or_seller = "seller"
             THEN sell_spice(tr, self, other, l.price,
                             l.welfare_self, l.welfare_other)
             ELSE sell_spice(tr, other, self, l.price,
                             l.welfare_other, l.welfare_self)
    IN  IF isclose(l.mrs_self, l.mrs_other)
        THEN TradeRet(tr, "returned", "none")
        ELSE IF r.exc # "none"
        THEN TradeRet(r.trader, "raised", r.exc)
        ELSE IF ~r.sold
        THEN TradeRet(r.trader, "returned", "none")
        ELSE TradeRet(
               [r.trader EXCEPT
                  ![self].prices = Append(@, l.price),
                  ![self].trade_partners =
                      Append(@, r.trader[other].unique_id),
                  ![self].bought_or_sold = Append(@, l.buyer_or_seller)],
               "recurse", "none")

\* Trader.trade(self, other): one activation, up to its recursive call
\* (status "recurse": the next activation is entered on the same pair)
trade(tr, self, other) ==
    IF ~(tr[self].sugar > 0 /\ tr[self].spice > 0
         /\ tr[other].sugar > 0 /\ tr[other].spice > 0)
    THEN TradeRet(tr, "raised", "AssertionError")
    ELSE trade_from(tr, self, other, trade_locals(tr, self, other))

\* ---------------------------------------------------- grid and resources
Cells == (0..(Width - 1)) \X (0..(Height - 1))

\* None; trader ids and patch maxima are positive
None == 0

\* what a tuple (x, y) offers by attribute lookup
TupleAttrs == { "count", "index" }

\* what the model object offers: the fields __init__ sets and the members
\* of mesa.Model the program uses
ModelAttrs ==
    { "width", "height", "initial_population", "endowment_min",
      "endowment_max", "metabolism_min", "metabolism_max", "vision_min",
      "vision_max", "running", "schedule", "grid", "datacollector",
      "random" }

\* utils.get_distance; the model keeps the squared distance
get_distance(cell_1, cell_2) ==
    IF "coordinate" \notin TupleAttrs
    THEN [exc |-> "AttributeError", d |-> 0]
    ELSE [exc |-> "none",
          d |-> (cell_1[1] - cell_2[1]) * (cell_1[1] - cell_2[1])
                + (cell_1[2] - cell_2[2]) * (cell_1[2] - cell_2[2])]

\* grid.get_neighborhood(pos, moore=False, include_center, radius) on a
\* grid that is not a torus
get_neighborhood(pos, include_center, radius) ==
    { c \in Cells :
        /\ Abs(c[1] - pos[1]) + Abs(c[2] - pos[2]) <= radius
        /\ (include_center \/ c # pos) }

\* the cells of S in the order get_neighborhood lists them (by x, then y)
CellIndex(c) == c[1] * Height + c[2]
RECURSIVE CellSeq(_)
CellSeq(S) ==
    IF S = {} THEN <<>>
    ELSE LET c == CHOOSE x \in S : \A y \in S : CellIndex(x) <= CellIndex(y)
         IN  <<c>> \o CellSeq(S \ {c})

\* Trader.get_resource: the patches the cell holds, each named by its
\* maximum; __init__ places a patch only where the map is positive
get_resource(cap, pos) ==
    [sugar |-> IF cap[pos].sugar > 0 THEN cap[pos].sugar ELSE None,
     spice |-> IF cap[pos].spice > 0 THEN cap[pos].spice ELSE None]

\* Trader.get_trader: the first Trader in the cell, or None
get_trader(g, pos) == IF g[pos] = <<>> THEN None ELSE Head(g[pos])

\* Trader.is_occupied
is_occupied(g, self, pos) == get_trader(g, pos) # None /\ pos # self.pos

\* Sugar.step and Spice.step: amount = min(max, amount + 1)
ResourceStep(amt, mx) == Min2(mx, amt + 1)

StepSugar(am, cap) ==
    [c \in DOMAIN am |->
        IF cap[c].sugar > 0
        THEN [am[c] EXCEPT !.sugar = ResourceStep(@, cap[c].sugar)]
        ELSE am[c]]

StepSpice(am, cap) ==
    [c \in DOMAIN am |->
        IF cap[c].spice > 0
        THEN [am[c] EXCEPT !.spice = ResourceStep(@, cap[c].spice)]
        ELSE am[c]]

\* a plausible slip: the loop over the Spice patches is left out
RegrowSugarOnly(am, cap) == StepSugar(am, cap)

\* step, lines 115-121: every Sugar patch steps, then every Spice patch
Regrow(am, cap) == StepSpice(StepSugar(am, cap), cap)

\* ------------------------------------------------------ Trader: move, eat
\* Trader.move: the exception it raises, or the cells it may move to
move(tr, g, am, cap, self) ==
    LET me        == tr[self]
        neighbors == { c \in get_neighborhood(me.pos, TRUE, me.vision) :
                          ~is_occupied(g, me, c) }
        \* get_resource(pos).get("sugar") is None where no patch was placed
        no_patch  == \E c \in neighbors :
                        \/ get_resource(cap, c).sugar = None
                        \/ get_resource(cap, c).spice = None
        welfare(c) == calc_welfare(me, me.sugar + am[c].sugar,
                                   me.spice + am[c].spice)
        max_welfare == CHOOSE w \in { welfare(c) : c \in neighbors } :
                          \A c \in neighbors : welfare(c) <= w
        candidates == { c \in neighbors :
                          isclose(Rat(welfare(c), 1), Rat(max_welfare, 1)) }
        dist(c)    == get_distance(me.pos, c)
        min_dist   == CHOOSE d \in { dist(c).d : c \in candidates } :
                          \A c \in candidates : d <= dist(c).d
        final_candidates ==
            { c \in candidates : isclose(Rat(dist(c).d, 1), Rat(min_dist, 1)) }
    IN  IF no_patch
        THEN [exc |-> "AttributeError", targets |-> {}]
        ELSE IF \E c \in candidates : dist(c).exc # "none"
        THEN [exc |-> "AttributeError", targets |-> {}]
        ELSE [exc |-> "none", targets |-> final_candidates]

\* grid.move_agent: leave the old cell, join the end of the new one
RemoveFrom(seq, x) == SelectSeq(seq, LAMBDA y : y # x)
move_agent(g, self, from, to) ==
    LET g1 == [g EXCEPT ![from] = RemoveFrom(@, self)]
    IN  [g1 EXCEPT ![to] = Append(@, self)]

\* Trader.eat
eat(tr, am, cap, self) ==
    LET pos == tr[self].pos
        sugar_patch == get_resource(cap, pos).sugar
        spice_patch == get_resource(cap, pos).spice
        tr1 == IF sugar_patch # None
               THEN [tr EXCEPT ![self].sugar = @ + am[pos].sugar]
               ELSE tr
        am1 == IF sugar_patch # None
               THEN [am EXCEPT ![pos].sugar = 0]
               ELSE am
        tr2 == [tr1 EXCEPT ![self].sugar = @ - tr[self].metabolism_sugar]
    IN  IF spice_patch # None
        \* self.spice += spice_patch adds the patch object to a number
        THEN [exc |-> "TypeError", trader |-> tr2, amount |-> am1]
        ELSE [exc |-> "none",
              trader |-> [tr2 EXCEPT
                            ![self].spice = @ - tr[self].metabolism_spice],
              amount |-> am1]

\* Trader.die: is the agent starved
starved(t) == t.sugar <= 0 \/ t.spice <= 0

\* ------------------------------------------- Trader: trade_with_neighbors
\* the whole recursion of self.trade(other)
RECURSIVE TradeRun(_, _, _)
TradeRun(tr, self, other) ==
    LET r == trade(tr, self, other)
    IN  IF r.status = "recurse" THEN TradeRun(r.trader, self, other) ELSE r

\* for a in neighbor_agents: self.trade(a)
RECURSIVE TradeAll(_, _, _)
TradeAll(tr, self, neighbor_agents) ==
    IF neighbor_agents = <<>>
    THEN TradeRet(tr, "returned", "none")
    ELSE LET r == TradeRun(tr, self, Head(neighbor_agents))
         IN  IF r.exc # "none" THEN r
             ELSE TradeAll(r.trader, self, Tail(neighbor_agents))

\* Trader.trade_with_neighbors, lines 291-295: the list neighbor_agents
neighbor_agents(tr, g, self) ==
    LET cells == CellSeq({ c \in get_neighborhood(tr[self].pos, FALSE,
                                                  tr[self].vision) :
                             is_occupied(g, tr[self], c) })
    IN  [i \in 1..Len(cells) |-> get_trader(g, cells[i])]

\* Trader.trade_with_neighbors
trade_with_neighbors(tr, g, self) ==
    TradeAll(tr, self, neighbor_agents(tr, g, self))

\* ------------------------------------------------------------------ state
VARIABLES
    trader,          \* id -> the fields of that Trader object
    grid,            \* cell -> the Traders in the cell, in placement order
    schedule,        \* ids in schedule.agents_by_type[Trader]
    amount,          \* cell -> current amount of its Sugar and Spice patch
    capacity,        \* cell -> maximum of its Sugar and Spice patch
    trader_shuffle,  \* the traders the running for loop has yet to visit
    steps,           \* schedule.steps
    pc,              \* where the program is
    exc,             \* the exception that ended the run, or "none"
    price,           \* argument of the calc_sell_amount call under test
    ret,             \* what the call under way returned or has done so far
    entry            \* trader as it was when the running trade began

vars == <<trader, grid, schedule, amount, capacity, trader_shuffle, steps,
          pc, exc, price, ret, entry>>

Trader(unique_id, pos, sugar, spice, metabolism_sugar, metabolism_spice, vision) ==
    [unique_id |-> unique_id, pos |-> pos, sugar |-> sugar, spice |-> spice,
     metabolism_sugar |-> metabolism_sugar,
     metabolism_spice |-> metabolism_spice, vision |-> vision,
     bought_or_sold |-> <<>>, prices |-> <<>>, trade_partners |-> <<>>]

\* ------------------------------------- calc_sell_amount applied to a price
PriceInputs == { Rat(n, d) : n \in 1..MaxPriceTerm, d \in 1..MaxPriceTerm }

NoModel ==
    /\ grid = [c \in Cells |-> <<>>] /\ schedule = {}
    /\ amount = [c \in Cells |-> [sugar |-> 0, spice |-> 0]]
    /\ capacity = [c \in Cells |-> [sugar |-> 0, spice |-> 0]]
    /\ trader_shuffle = <<>> /\ steps = 0

InitSellAmount ==
    /\ NoModel
    /\ trader = <<>> /\ entry = <<>>
    /\ pc = "calc_sell_amount" /\ exc = "none"
    /\ price \in PriceInputs
    /\ ret = <<>>

CallSellAmount ==
    /\ pc = "calc_sell_amount"
    /\ ret' = calc_sell_amount(price)
    /\ pc' = "sell_amount_returned"
    /\ UNCHANGED <<trader, grid, schedule, amount, capacity, trader_shuffle,
                   steps, exc, price, entry>>

SpecSellAmount == InitSellAmount /\ [][CallSellAmount]_vars

\* ------------------------------------------ trade(self, other) on one pair
Self  == 1
Other == 2

InitTrade ==
    /\ NoModel
    /\ \E s1, p1, s2, p2 \in 1..MaxHold :
       \E a1, b1, a2, b2 \in 1..MaxMetab :
          trader = <<Trader(Self,  <<0, 0>>, s1, p1, a1, b1, 1),
                     Trader(Other, <<0, 1>>, s2, p2, a2, b2, 1)>>
    /\ entry = trader
    /\ pc = "trade" /\ exc = "none"
    /\ price = Rat(1, 1) /\ ret = <<>>

\* one activation of Self.trade(Other); ret keeps its local variables
CallTrade ==
    /\ pc = "trade"
    /\ LET r == trade(trader, Self, Other)
       IN  /\ trader' = r.trader
           /\ exc' = r.exc
           /\ pc' = IF r.status = "recurse" THEN "trade" ELSE r.status
           /\ ret' = IF r.exc = "AssertionError" THEN <<>>
                      ELSE trade_locals(trader, Self, Other)
    /\ UNCHANGED <<grid, schedule, amount, capacity, trader_shuffle, steps,
                   price, entry>>

SpecTrade == InitTrade /\ [][CallTrade]_vars

\* ------------------------------------- exchange_resources between a pair
\* a third trader, who takes no part
Third == 3

InitExchange ==
    /\ NoModel
    /\ \E s1, p1, s2, p2 \in 1..MaxHold :
          trader = <<Trader(Self,  <<0, 0>>, s1, p1, 1, 1, 1),
                     Trader(Other, <<0, 1>>, s2, p2, 1, 1, 1),
                     Trader(Third, <<0, 1>>, 1, 1, 1, 1, 1)>>
    /\ entry = trader
    /\ pc = "exchange" /\ exc = "none"
    /\ price = Rat(1, 1) /\ ret = <<>>

\* Self.exchange_resources(Other, sugar, spice); ret lists the exchanges
CallExchange ==
    /\ pc = "exchange"
    /\ Len(ret) < MaxExchanges
    /\ \E sugar, spice \in 1..MaxUnits :
          /\ trader' = exchange_resources(trader, Self, Other, sugar, spice)
          /\ ret' = Append(ret, <<sugar, spice>>)
    /\ UNCHANGED <<grid, schedule, amount, capacity, trader_shuffle, steps,
                   pc, exc, price, entry>>

SpecExchange == InitExchange /\ [][CallExchange]_vars

\* ------------------------------------------------ regrowth of one patch
ProbeCell == <<0, 0>>

InitRegrow ==
    /\ \E cs, cp \in 0..PatchCap :
       \E as \in 0..cs :
       \E ap \in 0..cp :
          /\ capacity = [c \in Cells |->
                           IF c = ProbeCell THEN [sugar |-> cs, spice |-> cp]
                           ELSE [sugar |-> 0, spice |-> 0]]
          /\ amount = [c \in Cells |->
                         IF c = ProbeCell THEN [sugar |-> as, spice |-> ap]
                         ELSE [sugar |-> 0, spice |-> 0]]
    /\ entry = amount
    /\ grid = [c \in Cells |-> <<>>] /\ schedule = {} /\ trader = <<>>
    /\ trader_shuffle = <<>> /\ steps = 0
    /\ pc = "regrow" /\ exc = "none"
    /\ price = Rat(1, 1) /\ ret = <<>>

\* the regrow phase of one tick, no trader harvesting
RegrowTick ==
    /\ pc = "regrow"
    /\ steps < MaxRegrow
    /\ amount' = Regrow(amount, capacity)
    /\ steps' = steps + 1
    /\ UNCHANGED <<trader, grid, schedule, capacity, trader_shuffle, pc, exc,
                   price, ret, entry>>

SpecRegrow == InitRegrow /\ [][RegrowTick]_vars

\* ----------------------------------------------------- the tick scheduler
\* sugarscape.py defines step and run_model inside the body of __init__
\* (lines 109 and 162 are indented under it).  The actions below model a
\* call of the function step as it is written, and run_model as the loop
\* that calls it.
\* int(self.random.uniform(a, b)), a and b positive integers
IntUniform(a, b) ==
    IF a = b THEN {a} ELSE IF a < b THEN a..(b - 1) ELSE b..a

\* the orders random.shuffle can leave a list of the members of S in
Shuffles(S) ==
    { q \in [1..Cardinality(S) -> S] :
        \A i, j \in 1..Cardinality(S) : i # j => q[i] # q[j] }

\* spice_distribution = np.flip(sugar_distribution, 1)
CapacityOf(sugar_distribution) ==
    [c \in Cells |->
        [sugar |-> sugar_distribution[c],
         spice |-> sugar_distribution[<<c[1], Height - 1 - c[2]>>]]]

\* the number of Sugar and Spice patches __init__ places
NumPatches(cap) ==
    Cardinality({ c \in Cells : cap[c].sugar > 0 })
    + Cardinality({ c \in Cells : cap[c].spice > 0 })

\* the cell contents after traders 1..n were placed in this order
PlacedAt(tr, c) ==
    SelectSeq([i \in 1..Len(tr) |-> i], LAMBDA i : tr[i].pos = c)

\* __init__, lines 45-71: the patches of some sugar map
Patches ==
    /\ \E sugar_distribution \in [Cells -> 0..MaxCapacity] :
          capacity = CapacityOf(sugar_distribution)
    /\ amount \in [Cells -> [sugar : 0..MaxCapacity, spice : 0..MaxCapacity]]
    /\ \A c \in Cells : /\ amount[c].sugar <= capacity[c].sugar
                        /\ amount[c].spice <= capacity[c].spice

\* the same for a sugar map of zeros: no patch is placed
NoPatches ==
    /\ capacity = CapacityOf([c \in Cells |-> 0])
    /\ amount = [c \in Cells |-> [sugar |-> 0, spice |-> 0]]

\* __init__, lines 73-107: the traders
Population ==
    /\ \E initial_population \in 0..MaxPop :
          /\ \E made \in [1..initial_population ->
                 [unique_id : {0}, pos : Cells,
                  sugar : IntUniform(endowment_min, endowment_max + 1),
                  spice : IntUniform(endowment_min, endowment_max + 1),
                  metabolism_sugar : IntUniform(metabolism_min, metabolism_max),
                  metabolism_spice : IntUniform(metabolism_min, metabolism_max),
                  vision : IntUniform(vision_min, vision_max + 1),
                  bought_or_sold : {<<>>}, prices : {<<>>},
                  trade_partners : {<<>>}]] :
                \* agent_id goes on from the ids the patches were given
                trader = [i \in 1..initial_population |->
                            [made[i] EXCEPT
                               !.unique_id = NumPatches(capacity) + i - 1]]
          /\ schedule = 1..initial_population
    /\ grid = [c \in Cells |-> PlacedAt(trader, c)]
    /\ entry = <<>>
    /\ steps = 0
    /\ exc = "none"
    /\ price = Rat(1, 1) /\ ret = <<>>

\* SugarscapeG1mt.__init__: the model it constructs
Constructed == Patches /\ Population

\* the constructed model, about to run step
Init ==
    /\ Constructed
    /\ trader_shuffle = <<>>
    /\ pc = "step"

\* During a call of step, ret is the log of what the call has done so far.
\* step, lines 115-128: the patches regrow, the traders are shuffled
StepResources ==
    /\ pc = "step"
    /\ amount' = Regrow(amount, capacity)
    /\ trader_shuffle' \in Shuffles(schedule)
    /\ pc' = "move"
    /\ ret' = << [op |-> "regrow", alive |-> schedule, steps |-> steps] >>
    /\ UNCHANGED <<trader, grid, schedule, capacity, steps, exc, price, entry>>

\* step, lines 130-140: one turn of the first loop, or the second shuffle
\* once the loop is over
MoveEatDie ==
    /\ pc = "move"
    /\ IF trader_shuffle = <<>>
       THEN /\ trader_shuffle' \in Shuffles(schedule)
            /\ pc' = "trade"
            /\ UNCHANGED <<trader, grid, schedule, amount, exc, ret>>
       ELSE LET agent == Head(trader_shuffle)
                tr0 == [trader EXCEPT ![agent].prices = <<>>,
                                      ![agent].trade_partners = <<>>,
                                      ![agent].bought_or_sold = <<>>]
                m == move(tr0, grid, amount, capacity, agent)
                \* the turn's log entry: what was reached, where the
                \* trader is after move, and the state move was called in
                turn(op, to) == [op |-> op, agent |-> agent, to |-> to,
                                 trader |-> tr0, grid |-> grid,
                                 amount |-> amount]
            IN  IF m.exc # "none"
                THEN /\ trader' = tr0
                     /\ exc' = m.exc
                     /\ pc' = "raised"
                     /\ ret' = Append(ret, turn("move", tr0[agent].pos))
                     /\ UNCHANGED <<grid, schedule, amount, trader_shuffle>>
                ELSE \E to \in m.targets :
                     LET g1 == move_agent(grid, agent, tr0[agent].pos, to)
                         tr1 == [tr0 EXCEPT ![agent].pos = to]
                         e == eat(tr1, amount, capacity, agent)
                         dead == starved(e.trader[agent])
                     IN  /\ trader' = e.trader
                         /\ amount' = e.amount
                         /\ exc' = e.exc
                         /\ ret' = Append(ret,
                                IF e.exc # "none" THEN turn("move_eat", to)
                                ELSE turn("move_eat_die", to))
                         /\ IF e.exc # "none"
                            THEN /\ pc' = "raised"
                                 /\ grid' = g1
                                 /\ UNCHANGED <<schedule, trader_shuffle>>
                            ELSE /\ pc' = "move"
                                 /\ trader_shuffle' = Tail(trader_shuffle)
                                 \* Trader.die
                                 /\ grid' = IF dead
                                            THEN [g1 EXCEPT
                                                    ![to] = RemoveFrom(@, agent)]
                                            ELSE g1
                                 /\ schedule' = IF dead
                                                THEN schedule \ {agent}
                                                ELSE schedule
    /\ UNCHANGED <<capacity, steps, price, entry>>

\* step, lines 142-146: one turn of the second loop, or the step counter
\* once the loop is over
TradeWithNeighbors ==
    /\ pc = "trade"
    /\ IF trader_shuffle = <<>>
       THEN /\ steps' = steps + 1
            /\ pc' = "collect"
            /\ ret' = Append(ret, [op |-> "count"])
            /\ UNCHANGED <<trader, exc, trader_shuffle, entry>>
       ELSE LET agent == Head(trader_shuffle)
                r == trade_with_neighbors(trader, grid, agent)
            IN  /\ trader' = r.trader
                /\ entry' = trader
                /\ ret' = Append(ret, [op |-> "trade", agent |-> agent])
                /\ exc' = r.exc
                /\ pc' = IF r.exc # "none" THEN "raised" ELSE "trade"
                /\ trader_shuffle' = IF r.exc # "none" THEN trader_shuffle
                                     ELSE Tail(trader_shuffle)
                /\ UNCHANGED steps
    /\ UNCHANGED <<grid, schedule, amount, capacity, price>>

\* step, lines 149-160: datacollector.collect calls the model reporters in
\* order; "Price" reads m.schedule_agents_by_type.  run_model then calls
\* step again until step_count steps were made.
Collect ==
    /\ pc = "collect"
    /\ IF "schedule_agents_by_type" \notin ModelAttrs
       THEN exc' = "AttributeError" /\ pc' = "raised"
       ELSE exc' = exc /\ pc' = IF steps < step_count THEN "step"
                                ELSE "finished"
    /\ UNCHANGED <<trader, grid, schedule, amount, capacity, trader_shuffle,
                   steps, price, ret, entry>>

Next == StepResources \/ MoveEatDie \/ TradeWithNeighbors \/ Collect

Spec == Init /\ [][Next]_vars

\* --------------------------- trade_with_neighbors on a constructed model
\* the "Trade Volume" model reporter (sugarscape.py 41)
RECURSIVE SumPartners(_, _)
SumPartners(tr, S) ==
    IF S = {} THEN 0
    ELSE LET a == CHOOSE x \in S : TRUE
         IN  Len(tr[a].trade_partners) + SumPartners(tr, S \ {a})

\* a plausible slip: the reporter counts the traders, as "Trader" does
CountTraders(tr, sched) == Cardinality(sched)

TradeVolume(tr, sched) == SumPartners(tr, sched)

\* the traders are shuffled and each is about to take its trade turn
\* (sugarscape.py 139-143), on the model as __init__ leaves it.  The sugar
\* map is one of zeros: trade_with_neighbors does not look at the patches.
InitTurns ==
    /\ NoPatches
    /\ Population
    /\ trader_shuffle \in Shuffles(schedule)
    /\ pc = "turn"

\* agent.trade_with_neighbors() for the next trader of the list; ret is the
\* log of the turns: who took it, its neighbor_agents, how it ended
CallTradeWithNeighbors ==
    /\ pc = "turn"
    /\ trader_shuffle # <<>>
    /\ LET agent == Head(trader_shuffle)
           r == trade_with_neighbors(trader, grid, agent)
       IN  /\ trader' = r.trader
           /\ exc' = r.exc
           /\ pc' = IF r.exc # "none" THEN "raised" ELSE "turn"
           /\ trader_shuffle' = Tail(trader_shuffle)
           /\ ret' = Append(ret,
                  [op |-> "trade", agent |-> agent, exc |-> r.exc,
                   neighbor_agents |-> neighbor_agents(trader, grid, agent)])
    /\ UNCHANGED <<grid, schedule, amount, capacity, steps, price, entry>>

SpecTurns == InitTurns /\ [][CallTradeWithNeighbors]_vars

\* ------------------------------------------- eat on a constructed model
InitEat ==
    /\ Constructed
    /\ trader_shuffle = <<>>
    /\ pc = "eat"

\* agent.eat() for a trader of the model; ret keeps who ate and the state
\* eat was called in
CallEat ==
    /\ pc = "eat"
    /\ \E agent \in schedule :
         LET e == eat(trader, amount, capacity, agent)
         IN  /\ trader' = e.trader
             /\ amount' = e.amount
             /\ exc' = e.exc
             /\ pc' = IF e.exc # "none" THEN "raised" ELSE "ate"
             /\ ret' = [agent |-> agent, trader |-> trader, amount |-> amount]
    /\ UNCHANGED <<grid, schedule, capacity, trader_shuffle, steps, price,
                   entry>>

SpecEat == InitEat /\ [][CallEat]_vars

\* ------------------------------------------------------ what the runs do
Finished == pc \in {"returned", "raised"}

\* No activation of trade changes a holding or a history: sell_spice
\* returns False at the balance check or raises at line 145 or 149.
\* (Invariant of SpecTrade.)
TradeLeavesPairUnchanged == trader = entry

\* No run of step gets a trader past its move: the trade loop is only
\* reached by an empty population, no trader is removed, and the first
\* step never completes.  (Invariant of Spec.)
StepEndsAtFirstMove ==
    /\ schedule = DOMAIN trader
    /\ (pc \in {"trade", "collect"} => DOMAIN trader = {})
    /\ exc \in {"none", "AttributeError"}
    /\ pc # "finished" /\ steps <= 1
    /\ \A c \in Cells : /\ amount[c].sugar <= capacity[c].sugar
                        /\ amount[c].spice <= capacity[c].spice

\* ----------------------------------------------------------------- claims

\* k = floor(sqrt(n/d))
IsFloorSqrt(k, n, d) == k * k * d <= n /\ n < (k + 1) * (k + 1) * d

\* C5: calc_sell_amount maps a price >= 1 to (1, floor(price)) and a price
\* < 1 to (floor(1/price), 1); both quantities are at least 1; price 3
\* gives (1,3), price 0.25 gives (4,1), price 1 gives (1,1).
C5_UnitQuantities ==
    pc = "sell_amount_returned" =>
        /\ ret[1] >= 1 /\ ret[2] >= 1
        /\ price.n >= price.d =>
               ret[1] = 1 /\ IsFloorSqrt(ret[2], price.n, price.d)
        /\ price.n < price.d =>
               ret[2] = 1 /\ IsFloorSqrt(ret[1], price.d, price.n)
        /\ price = Rat(9, 1)  => ret = <<1, 3>>
        /\ price = Rat(1, 16) => ret = <<4, 1>>
        /\ price = Rat(1, 1)  => ret = <<1, 1>>

C5_Witness ==
    pc = "sell_amount_returned" /\ price = Rat(1, 16) /\ ret = <<4, 1>>

\* each agent's MRS at its own holdings, with its own metabolism rates
OwnMrs(tr, a) == calc_mrs(tr[a], tr[a].sugar, tr[a].spice)

\* The exchange of spec 4.2 step 5 between seller s (higher MRS) and buyer
\* b at the holdings tr passes all three checks.
PassesChecks(tr, s, b) ==
    LET p   == Rat(OwnMrs(tr, s).n * OwnMrs(tr, b).n,
                   OwnMrs(tr, s).d * OwnMrs(tr, b).d)
        amt == calc_sell_amount(p)
        ss  == tr[s].sugar + amt[1]
        sp  == tr[s].spice - amt[2]
        bs  == tr[b].sugar - amt[1]
        bp  == tr[b].spice + amt[2]
    IN  /\ ss > 0 /\ sp > 0 /\ bs > 0 /\ bp > 0
        /\ calc_welfare(tr[s], tr[s].sugar, tr[s].spice)
             < calc_welfare(tr[s], ss, sp)
        /\ calc_welfare(tr[b], tr[b].sugar, tr[b].spice)
             < calc_welfare(tr[b], bs, bp)
        /\ RatLess(calc_mrs(tr[b], bs, bp), calc_mrs(tr[s], ss, sp))

AcceptableExchange(tr, a, b) ==
    IF RatLess(OwnMrs(tr, b), OwnMrs(tr, a))
    THEN PassesChecks(tr, a, b)
    ELSE PassesChecks(tr, b, a)

\* C1: when trade(self, other) returns, the two MRS values are
\* approximately equal or the next discrete exchange would be rejected: no
\* acceptable exchange remains at the holdings the protocol leaves.
C1_FixedPoint ==
    pc = "returned" =>
        \/ isclose(OwnMrs(trader, Self), OwnMrs(trader, Other))
        \/ ~AcceptableExchange(trader, Self, Other)

\* C3: from strictly positive holdings and metabolism rates the trade
\* protocol, once it is over, has ended at the stop condition or at a
\* rejection and has returned.
C3_Returns == Finished => (pc = "returned" /\ exc = "none")

\* C10: a pair entering the protocol with MRS 2 and 0.5 has, when the
\* protocol is over, accepted at least one exchange, the first at price
\* 1.0, 1 sugar to the MRS-2 agent for 1 spice to the MRS-0.5 agent.
EntryMrsIs(a, n, d) == RatEq(OwnMrs(entry, a), Rat(n, d))

C10_ComplementaryPairTrades ==
    \A hi, lo \in {Self, Other} :
        (Finished /\ EntryMrsIs(hi, 2, 1) /\ EntryMrsIs(lo, 1, 2)) =>
            /\ Len(trader[Self].prices) >= 1
            /\ RatEq(trader[Self].prices[1], Rat(1, 1))
            /\ trader[hi].sugar >= entry[hi].sugar + 1
            /\ trader[lo].spice >= entry[lo].spice + 1

\* C8: each cell's current sugar and spice stay within 0..capacity, and
\* every regrow phase sets current = min(current + 1, capacity) for both
\* resources: after k phases without harvest a patch that started at a
\* holds min(a + k, capacity), so one that starts at 0 with capacity 5
\* holds 5 after 6 phases.
C8_RegrowCapped ==
    pc = "regrow" =>
        \A c \in Cells :
            /\ 0 <= amount[c].sugar /\ amount[c].sugar <= capacity[c].sugar
            /\ 0 <= amount[c].spice /\ amount[c].spice <= capacity[c].spice
            /\ amount[c].sugar = Min2(entry[c].sugar + steps, capacity[c].sugar)
            /\ amount[c].spice = Min2(entry[c].spice + steps, capacity[c].spice)

C8_Witness ==
    /\ pc = "regrow" /\ steps = 6
    /\ capacity[ProbeCell].sugar = 5 /\ entry[ProbeCell].sugar = 0
    /\ amount[ProbeCell].sugar = 5
    /\ capacity[ProbeCell].spice = 5 /\ entry[ProbeCell].spice = 0
    /\ amount[ProbeCell].spice = 5

\* C9: from initial placement onward no grid cell holds more than one
\* living trader.
C9_OneTraderPerCell == \A c \in Cells : Len(grid[c]) <= 1


\* C11: with an initial population of exactly one trader no exchange is
\* ever accepted: the trader's histories stay empty and the aggregate
\* trade volume is 0.
C11_LoneTraderNeverTrades ==
    DOMAIN trader = {1} =>
        /\ trader[1].trade_partners = <<>>
        /\ trader[1].prices = <<>>
        /\ trader[1].bought_or_sold = <<>>
        /\ TradeVolume(trader, schedule) = 0

\* the lone trader took its trade turn and found no neighbour
C11_Witness ==
    /\ DOMAIN trader = {1} /\ pc = "turn" /\ trader_shuffle = <<>>
    /\ Len(ret) = 1 /\ ret[1].agent = 1 /\ ret[1].neighbor_agents = <<>>
    /\ TradeVolume(trader, schedule) = 0


\* C12: each agent's MRS in trade is computed from its own holdings and
\* its own metabolism rates, and the agent with the strictly higher MRS
\* takes the role "seller" (receives sugar, gives spice), also for pairs
\* with different metabolism rates.
C12_OwnMrsDecidesRoles ==
    (Finished /\ ret # <<>>) =>
        /\ RatEq(ret.mrs_self, OwnMrs(ret.at, Self))
        /\ RatEq(ret.mrs_other, OwnMrs(ret.at, Other))
        /\ RatLess(OwnMrs(ret.at, Other), OwnMrs(ret.at, Self))
             => ret.buyer_or_seller = "seller"
        /\ RatLess(OwnMrs(ret.at, Self), OwnMrs(ret.at, Other))
             => ret.buyer_or_seller = "buyer"


\* the exchange an activation of trade hands to sell_spice: who sells
\* spice for sugar, and the holdings it would leave
AttemptOf(l) ==
    LET s   == IF l.buyer_or_seller = "seller" THEN Self ELSE Other
        b   == IF l.buyer_or_seller = "seller" THEN Other ELSE Self
        amt == calc_sell_amount(l.price)
    IN  [ s |-> s, b |-> b,
          ss |-> l.at[s].sugar + amt[1], sp |-> l.at[s].spice - amt[2],
          bs |-> l.at[b].sugar - amt[1], bp |-> l.at[b].spice + amt[2] ]

\* the three checks of spec 4.2 step 6 on that exchange
BalanceCheck(l) ==
    LET x == AttemptOf(l)
    IN  x.ss > 0 /\ x.sp > 0 /\ x.bs > 0 /\ x.bp > 0

WelfareCheck(l) ==
    LET x == AttemptOf(l)
    IN  /\ calc_welfare(l.at[x.s], l.at[x.s].sugar, l.at[x.s].spice)
             < calc_welfare(l.at[x.s], x.ss, x.sp)
        /\ calc_welfare(l.at[x.b], l.at[x.b].sugar, l.at[x.b].spice)
             < calc_welfare(l.at[x.b], x.bs, x.bp)

MrsCheck(l) ==
    LET x == AttemptOf(l)
    IN  RatLess(calc_mrs(l.at[x.b], x.bs, x.bp),
                calc_mrs(l.at[x.s], x.ss, x.sp))

\* the activation reached sell_spice
Attempted == Finished /\ ret # <<>> /\ ~isclose(ret.mrs_self, ret.mrs_other)

\* C14: an exchange rejected by any of the three checks is a no-op: the
\* holdings and histories of both agents are what they were before the
\* attempt, and the protocol ends for the pair without a further attempt.
C14_RejectionIsNoOp ==
    (Attempted /\ ~(BalanceCheck(ret) /\ WelfareCheck(ret) /\ MrsCheck(ret)))
        => (trader = ret.at /\ pc = "returned" /\ exc = "none")


\* a call of step is over: it returned or it raised
StepOver == ret # <<>> /\ pc \in {"step", "finished", "raised"}

\* C15: a call of step runs its phases in strict order: the cells regrow;
\* then every trader alive at the start takes one complete move, eat, die
\* turn; then every survivor takes one trade turn; and the call advances
\* the tick counter by exactly one.
C15_PhasesInOrder ==
    StepOver =>
        LET n == Cardinality(ret[1].alive)
            k == Cardinality(schedule)
        IN  /\ Len(ret) = n + k + 2
            /\ ret[1].op = "regrow"
            /\ \A i \in 2..(n + 1) : ret[i].op = "move_eat_die"
            /\ { ret[i].agent : i \in 2..(n + 1) } = ret[1].alive
            /\ \A i \in (n + 2)..(n + k + 1) : ret[i].op = "trade"
            /\ { ret[i].agent : i \in (n + 2)..(n + k + 1) } = schedule
            /\ ret[Len(ret)].op = "count"
            /\ steps = ret[1].steps + 1


\* the living traders other than a within a's vision radius
Visible(a) ==
    { b \in schedule \ {a} :
        trader[b].pos \in get_neighborhood(trader[a].pos, TRUE,
                                           trader[a].vision) }

\* the trade loop is over: every trader had its turn, or a turn raised
TurnsOver == pc \in {"turn", "raised"} /\ (trader_shuffle = <<>> \/ pc = "raised")

\* C16: in the trade phase every living trader takes one turn, in which
\* the protocol is run once against every other living trader within its
\* vision; a mutually visible pair is thus processed from both sides.
C16_EveryNeighbourFromBothSides ==
    TurnsOver =>
        \A a \in schedule :
            \E i \in 1..Len(ret) :
                /\ ret[i].agent = a
                /\ \A j \in 1..Len(ret) : ret[j].agent = a => j = i
                /\ { ret[i].neighbor_agents[k] :
                       k \in 1..Len(ret[i].neighbor_agents) } = Visible(a)
                /\ Len(ret[i].neighbor_agents) = Cardinality(Visible(a))


\* For a logged move turn t: the trader's own cell and the cells within
\* its vision that hold no other trader, its welfare if it held a cell's
\* resources too, and the squared Euclidean distance of a cell from where
\* it stood.
Candidates(t) ==
    { c \in get_neighborhood(t.trader[t.agent].pos, TRUE,
                             t.trader[t.agent].vision) :
        \/ c = t.trader[t.agent].pos
        \/ \A k \in 1..Len(t.grid[c]) : t.grid[c][k] = t.agent }

HypotheticalWelfare(t, c) ==
    calc_welfare(t.trader[t.agent],
                 t.trader[t.agent].sugar + t.amount[c].sugar,
                 t.trader[t.agent].spice + t.amount[c].spice)

DistanceSquared(t, c) ==
    (c[1] - t.trader[t.agent].pos[1]) * (c[1] - t.trader[t.agent].pos[1])
    + (c[2] - t.trader[t.agent].pos[2]) * (c[2] - t.trader[t.agent].pos[2])

WelfareMaximal(t) ==
    { c \in Candidates(t) :
        \A d \in Candidates(t) :
            HypotheticalWelfare(t, d) <= HypotheticalWelfare(t, c) }

Nearest(t) ==
    { c \in WelfareMaximal(t) :
        \A d \in WelfareMaximal(t) :
            DistanceSquared(t, c) <= DistanceSquared(t, d) }

\* C17: move returns with the trader on a cell that is within its vision
\* and free of other traders, has the maximum hypothetical welfare of all
\* such cells and, among those, the minimum distance from where it stood.
C17_MoveToNearestBest ==
    \A i \in 2..Len(ret) :
        ret[i].op \in {"move", "move_eat", "move_eat_die"} =>
            /\ ret[i].op # "move"
            /\ ret[i].to \in Nearest(ret[i])


\* C18: eat adds the cell's full current sugar and spice to the trader's
\* balances, leaves the cell with 0 of both, and subtracts the metabolism
\* rates; no other trader and no other cell changes.
C18_EatHarvestsCell ==
    pc \in {"ate", "raised"} =>
        LET a   == ret.agent
            old == ret.trader[a]
            pos == old.pos
        IN  /\ trader[a].sugar
                 = old.sugar + ret.amount[pos].sugar - old.metabolism_sugar
            /\ trader[a].spice
                 = old.spice + ret.amount[pos].spice - old.metabolism_spice
            /\ amount[pos].sugar = 0 /\ amount[pos].spice = 0
            /\ \A b \in DOMAIN trader \ {a} : trader[b] = ret.trader[b]
            /\ \A c \in Cells \ {pos} : amount[c] = ret.amount[c]


\* C20: exchanges between two agents conserve resources within the pair:
\* the sum of their sugar and the sum of their spice are what they were
\* before, and no other trader's balances and no cell's resources change.
C20_PairConserves ==
    /\ trader[Self].sugar + trader[Other].sugar
         = entry[Self].sugar + entry[Other].sugar
    /\ trader[Self].spice + trader[Other].spice
         = entry[Self].spice + entry[Other].spice
    /\ \A b \in DOMAIN trader \ {Self, Other} : trader[b] = entry[b]
    /\ \A c \in Cells : amount[c] = [sugar |-> 0, spice |-> 0]

\* two exchanges were made and the holdings of both agents have changed
C20_Witness ==
    /\ pc = "exchange" /\ Len(ret) = MaxExchanges
    /\ trader[Self].sugar > entry[Self].sugar
    /\ trader[Other].spice > entry[Other].spice
    /\ C20_PairConserves

=============================================================================
